---- MODULE Spec2Model ----
(***************************************************************************)
(* Spacetime hashing (src/lib_sthash.js): quantifyDuration, quantifyLatLng,*)
(* HMAC and hashSpacetime, modelled as a state machine that runs calls of  *)
(* hashSpacetime one loop iteration at a time.                             *)
(*                                                                         *)
(* Numbers.  Timestamps are integer-valued JS Numbers and are modelled as  *)
(* integers, plus NaN (a zero step divides by zero).  Coordinates are JS   *)
(* Numbers with a fraction: binary floating point, round-to-nearest-even.  *)
(* A coordinate is modelled as an integer count of 2^-FracBits, and every  *)
(* arithmetic result is rounded to SigBits significant bits (JS: 53).      *)
(***************************************************************************)
EXTENDS Integers, Sequences, FiniteSets, TLC

\* Significand width of the modelled binary floating point (JS Number: 53).
SigBits == 9

\* Largest spread_out level of the modelled calls.
MaxSpread == 2

\* Number of elements an array can take before push fails (the engine's
\* array-length / heap limit, far beyond any result of a valid call).
MaxLen == 6

RECURSIVE Pow(_, _)
Pow(b, n) == IF n = 0 THEN 1 ELSE b * Pow(b, n - 1)

\* Coordinates count units of 2^-FracBits; 0.1 has exponent -4.
FracBits == SigBits + 3
Unit == Pow(2, FracBits)

Abs(x) == IF x < 0 THEN -x ELSE x

(***************************************************************************)
(* Floating point.                                                         *)
(***************************************************************************)

\* The spacing of the floats around N/D (N >= 0, D > 0, in units): the
\* largest power of two Q with Q * 2^(SigBits-1) <= N/D, at least one unit.
RECURSIVE Quantum(_, _, _)
Quantum(N, D, Q) ==
  IF 2 * Q * Pow(2, SigBits - 1) * D <= N THEN Quantum(N, D, 2 * Q) ELSE Q

\* N/D (N >= 0) rounded to the nearest float, ties to even.
RoundMagnitude(N, D) ==
  LET den == D * Quantum(N, D, 1)
      m   == N \div den
      r   == N - m * den
      up  == 2 * r > den \/ (2 * r = den /\ m % 2 = 1)
  IN  (IF up THEN m + 1 ELSE m) * Quantum(N, D, 1)

FRound(N, D) == IF N >= 0 THEN RoundMagnitude(N, D) ELSE -RoundMagnitude(-N, D)

\* a + b and i * a of JS Numbers (a, b floats in units, i an integer).
FAdd(a, b) == FRound(a + b, 1)
FSub(a, b) == FRound(a - b, 1)
FMul(i, a) == FRound(i * a, 1)

\* A decimal numeral is [neg, d, k]: (-1)^neg * d / 10^k.
Dec(neg, d, k) == [neg |-> neg, d |-> d, k |-> k]

\* parseFloat of a decimal numeral: the nearest float.
ParseFloat(s) ==
  LET v == RoundMagnitude(s.d * Unit, Pow(10, s.k))
  IN  IF s.neg THEN -v ELSE v

\* 10 ** p.
TenToThe(p) == IF p >= 0 THEN Pow(10, p) * Unit ELSE FRound(Unit, Pow(10, -p))

\* Number of decimals Number.prototype.toString may need.
MaxDecimals == SigBits \div 3 + 2

\* The integer nearest to |x| * 10^k.
NearestScaled(x, k) == (Abs(x) * Pow(10, k) + Unit \div 2) \div Unit

\* x.toString(): the shortest decimal numeral that parses back to x.
ToDecimal(x) ==
  LET ok(k) == ParseFloat(Dec(FALSE, NearestScaled(x, k), k)) = Abs(x)
      k0    == CHOOSE k \in 0..MaxDecimals :
                 ok(k) /\ \A j \in 0..(k - 1) : ~ok(j)
  IN  Dec(x < 0, NearestScaled(x, k0), k0)

Digit(n) == CASE n = 0 -> "0" [] n = 1 -> "1" [] n = 2 -> "2" [] n = 3 -> "3"
              [] n = 4 -> "4" [] n = 5 -> "5" [] n = 6 -> "6" [] n = 7 -> "7"
              [] n = 8 -> "8" [] n = 9 -> "9"

\* The digits of a natural number.
RECURSIVE NatToString(_)
NatToString(n) ==
  IF n < 10 THEN Digit(n) ELSE NatToString(n \div 10) \o Digit(n % 10)

\* Exactly k digits of n, zero padded on the left.
RECURSIVE FracToString(_, _)
FracToString(n, k) ==
  IF k = 0 THEN "" ELSE FracToString(n \div 10, k - 1) \o Digit(n % 10)

\* The text of a decimal numeral: sign, integer part, point, k decimals.
DecToString(s) ==
  (IF s.neg /\ s.d # 0 THEN "-" ELSE "")
    \o NatToString(s.d \div Pow(10, s.k))
    \o (IF s.k = 0 THEN "" ELSE "." \o FracToString(s.d % Pow(10, s.k), s.k))

\* toString of a coordinate, and of a timestamp (an integer: only numbers
\* that passed t <= end are pushed, and NaN passes no comparison).
NumToString(x) == DecToString(ToDecimal(x))
TimeToString(t) == (IF t < 0 THEN "-" ELSE "") \o NatToString(Abs(t))

(***************************************************************************)
(* quantifyDuration and quantifyLatLng: the pure parts.                     *)
(***************************************************************************)

\* A timestamp expression: an integer, or NaN.
Num(v) == [nan |-> FALSE, v |-> v]
NaNTime == [nan |-> TRUE, v |-> 0]

\* a <= b of JS Numbers: false as soon as one side is NaN.
Leq(a, b) == ~a.nan /\ ~b.nan /\ a.v <= b.v

\* Math.floor(a / b) and Math.ceil(a / b), b # 0 of either sign.
FloorDiv(a, b) == IF b > 0 THEN a \div b ELSE (-a) \div (-b)
CeilDiv(a, b) == -FloorDiv(-a, b)

\* let step = time_step_in_mins * 60
StepOf(time_step_in_mins) == time_step_in_mins * 60

\* Ceiling instead of floor.
QuantBeginCeil(begin_, step) ==
  IF step = 0 THEN NaNTime ELSE Num(CeilDiv(begin_, step) * step)

\* let begin = Math.floor(begin_ / step) * step: x/0 is +-Infinity or NaN,
\* and Infinity * 0 is NaN.
QuantBegin(begin_, step) ==
  IF step = 0 THEN NaNTime ELSE Num(FloorDiv(begin_, step) * step)

\* let end = Math.ceil(end_ / step) * step
QuantEnd(end_, step) ==
  IF step = 0 THEN NaNTime ELSE Num(CeilDiv(end_, step) * step)

\* t += step
Advance(t, step) == IF t.nan THEN NaNTime ELSE Num(t.v + step)

\* utils.shuffleFloat(x, p - 1, p - 1, '0'): the decimal text of x with
\* every digit below the 10^p position replaced by '0'.
ShuffleFloat(x, p) ==
  LET s   == ToDecimal(x)
      cut == IF s.k + p > 0 THEN Pow(10, s.k + p) ELSE 1
  IN  Dec(s.neg, (s.d \div cut) * cut, s.k)

\* The quantized coordinate moved one cell up.
QuantifyLatLngShifted(lat_, lng_, latlng_precision) ==
  << FAdd(ParseFloat(ShuffleFloat(lat_, latlng_precision)),
          TenToThe(latlng_precision)),
     ParseFloat(ShuffleFloat(lng_, latlng_precision)),
     TenToThe(latlng_precision),
     TenToThe(latlng_precision) >>

\* quantifyLatLng: [lat, lng, lat_step, lng_step]
QuantifyLatLng(lat_, lng_, latlng_precision) ==
  << ParseFloat(ShuffleFloat(lat_, latlng_precision)),
     ParseFloat(ShuffleFloat(lng_, latlng_precision)),
     TenToThe(latlng_precision),
     TenToThe(latlng_precision) >>

(***************************************************************************)
(* The calls' arguments.                                                   *)
(***************************************************************************)

Coord(d, k) == ParseFloat(Dec(FALSE, d, k))
NegCoord(d, k) == ParseFloat(Dec(TRUE, d, k))

Args(key, begin_, end_, lat_, lng_, mins, precision, spread) ==
  [key |-> key, begin |-> begin_, end |-> end_, lat |-> lat_, lng |-> lng_,
   time_step_in_mins |-> mins, latlng_precision |-> precision,
   spread_out |-> spread]

Durations == {<<100, 500>>, <<700, 1100>>, <<1300, 1400>>}
Lats == {Coord(25, 2), Coord(31, 2)}
Lngs == {Coord(3, 1), Coord(47, 2)}

\* Records and configurations of the specification's callers, all valid:
\* every record at every spread_out under one key, and some under another.
ValidArgs ==
  { Args("abc", d[1], d[2], la, ln, 10, -1, s) :
      d \in Durations, la \in Lats, ln \in Lngs, s \in 0..MaxSpread }
  \cup
  { Args("JuliaWu", 100, 500, la, ln, 10, -1, 1) : la \in Lats, ln \in Lngs }

\* No call is running.
NoArgs == Args("", 0, 0, 0, 0, 0, 0, 0)

\* One call on its own: durations of every shape, a zero and a negative
\* step, begin after end; coordinates of either sign at several precisions;
\* a negative spread_out and an empty key.
Times == {-100, 0, 123, 600, 601, 700}
Minutes == {-10, 0, 5, 10}
DurationArgs ==
  { Args("abc", b, e, Coord(3, 1), Coord(3, 1), m, -1, 0) :
      b \in Times, e \in Times, m \in Minutes }
LatLngArgs ==
  { Args("abc", 100, 500, la, ln, 10, p, 1) :
      la \in {Coord(0, 0), Coord(25, 2), Coord(99, 2), Coord(125, 2),
              NegCoord(25, 2), NegCoord(7, 2), Coord(125, 1)},
      ln \in {Coord(31, 2), NegCoord(147, 2)},
      p \in {-2, -1, 0, 1} }
OddArgs ==
  { Args(k, 100, 500, Coord(25, 2), Coord(3, 1), 10, -1, s) :
      k \in {"abc", ""}, s \in {-1, 1} }
AnyArgs == DurationArgs \cup LatLngArgs \cup OddArgs

VARIABLES
  pc,        \* where the running call stands
  args,      \* the arguments of the running (or last) call
  lat, lng, lat_step, lng_step,   \* hashSpacetime: q[0] .. q[3]
  qd_end, t, qt,                  \* quantifyDuration: end, t, ret
  ti,        \* hashSpacetime: position of the for-of loop in qt
  lng_i, lat_i,                   \* hashSpacetime: the inner loops' counters
  ret,       \* hashSpacetime: ret
  pts,       \* the (timestamp, lat, lng) handed to hmac, in call order
  hist       \* the first completed call: << [args, qt, ret] >>, or << >>

vars == << pc, args, lat, lng, lat_step, lng_step, qd_end, t, qt, ti,
           lng_i, lat_i, ret, pts, hist >>

Step == StepOf(args.time_step_in_mins)
Spread == args.spread_out

Init ==
  /\ pc = "idle"
  /\ args = NoArgs
  /\ lat = 0 /\ lng = 0 /\ lat_step = 0 /\ lng_step = 0
  /\ qd_end = Num(0) /\ t = Num(0) /\ qt = << >>
  /\ ti = 1 /\ lng_i = 0 /\ lat_i = 0
  /\ ret = << >> /\ pts = << >>
  /\ hist = << >>

\* sha256.hmac(key, msg).substr(0, HASH_VALUE_LEN): a keyed hash of the
\* message, taken as collision free.
Sha256Hmac(key, msg) == [key |-> key, msg |-> msg]

\* The message built from the latitude as given, not as quantized.
HMACRawLat(key, timestamp, lat_, lng_) ==
  Sha256Hmac(key,
    TimeToString(timestamp) \o NumToString(args.lat) \o NumToString(lng_))

\* The message salted with the number of calls remembered so far.
HMACCounting(key, timestamp, lat_, lng_) ==
  Sha256Hmac(key,
    NatToString(Len(hist)) \o TimeToString(timestamp)
      \o NumToString(lat_) \o NumToString(lng_))

\* HMAC(key)(timestamp, lat, lng): msg = timestamp.toString() +
\* lat.toString() + lng.toString()
HMAC(key, timestamp, lat_, lng_) ==
  Sha256Hmac(key,
    TimeToString(timestamp) \o NumToString(lat_) \o NumToString(lng_))

\* hashSpacetime(key, begin, end, lat, lng, ...) up to the first loop test
\* of quantifyDuration: hmac, q, ret and quantifyDuration's step, begin, end.
Call(S) ==
  /\ pc = "idle"
  /\ \E a \in S :
       LET q == QuantifyLatLng(a.lat, a.lng, a.latlng_precision)
       IN  /\ args' = a
           /\ lat' = q[1] /\ lng' = q[2] /\ lat_step' = q[3] /\ lng_step' = q[4]
           /\ t' = QuantBegin(a.begin, StepOf(a.time_step_in_mins))
           /\ qd_end' = QuantEnd(a.end, StepOf(a.time_step_in_mins))
  /\ qt' = << >> /\ ret' = << >> /\ pts' = << >>
  /\ pc' = "qd_loop"
  /\ UNCHANGED << ti, lng_i, lat_i, hist >>

\* quantifyDuration: for (t = begin; t <= end; t += step) ret.push(t)
QDPush ==
  /\ pc = "qd_loop" /\ Leq(t, qd_end) /\ Len(qt) < MaxLen
  /\ qt' = Append(qt, t.v)
  /\ t' = Advance(t, Step)
  /\ UNCHANGED << pc, args, lat, lng, lat_step, lng_step, qd_end, ti,
                  lng_i, lat_i, ret, pts, hist >>

\* quantifyDuration: ret.push(t) on an array that cannot grow: the engine
\* stops the call (RangeError or out of memory).
QDOverflow ==
  /\ pc = "qd_loop" /\ Leq(t, qd_end) /\ Len(qt) >= MaxLen
  /\ pc' = "crashed"
  /\ UNCHANGED << args, lat, lng, lat_step, lng_step, qd_end, t, qt, ti,
                  lng_i, lat_i, ret, pts, hist >>

\* quantifyDuration: the loop's exit and return ret; the for-of loop starts.
QDReturn ==
  /\ pc = "qd_loop" /\ ~Leq(t, qd_end)
  /\ ti' = 1
  /\ pc' = "ts_loop"
  /\ UNCHANGED << args, lat, lng, lat_step, lng_step, qd_end, t, qt,
                  lng_i, lat_i, ret, pts, hist >>

\* for (let t of quantifyDuration(...)): the next timestamp;
\* let lng_i = -spread_out
TsEnter ==
  /\ pc = "ts_loop" /\ ti <= Len(qt)
  /\ lng_i' = -Spread
  /\ pc' = "rows"
  /\ UNCHANGED << args, lat, lng, lat_step, lng_step, qd_end, t, qt, ti,
                  lat_i, ret, pts, hist >>

\* for (let t of ...): no timestamp is left; return ret
TsExit ==
  /\ pc = "ts_loop" /\ ti > Len(qt)
  /\ pc' = "returned"
  /\ UNCHANGED << args, lat, lng, lat_step, lng_step, qd_end, t, qt, ti,
                  lng_i, lat_i, ret, pts, hist >>

\* The lat + spread_out point pushed before the lat - spread_out point.
RowPointsSwapped ==
  << [t |-> qt[ti], lat |-> FAdd(lat, FMul(Spread, lat_step)),
      lng |-> FAdd(lng, FMul(lng_i, lng_step))],
     [t |-> qt[ti], lat |-> FSub(lat, FMul(Spread, lat_step)),
      lng |-> FAdd(lng, FMul(lng_i, lng_step))] >>

\* The two points of one iteration of the first inner loop.
RowPoints ==
  << [t |-> qt[ti], lat |-> FSub(lat, FMul(Spread, lat_step)),
      lng |-> FAdd(lng, FMul(lng_i, lng_step))],
     [t |-> qt[ti], lat |-> FAdd(lat, FMul(Spread, lat_step)),
      lng |-> FAdd(lng, FMul(lng_i, lng_step))] >>

\* The two points of one iteration of the second inner loop.
ColPoints ==
  << [t |-> qt[ti], lat |-> FAdd(lat, FMul(lat_i, lat_step)),
      lng |-> FSub(lng, FMul(Spread, lng_step))],
     [t |-> qt[ti], lat |-> FAdd(lat, FMul(lat_i, lat_step)),
      lng |-> FAdd(lng, FMul(Spread, lng_step))] >>

\* ret.push(hmac(t, lat', lng')) for both points of an iteration.
Pushed(two) ==
  /\ ret' = ret \o << HMAC(args.key, two[1].t, two[1].lat, two[1].lng),
                      HMAC(args.key, two[2].t, two[2].lat, two[2].lng) >>
  /\ pts' = pts \o two

\* Empty square, top and bottom lines: one iteration.
RowPush ==
  /\ pc = "rows" /\ lng_i <= Spread
  /\ Pushed(RowPoints)
  /\ lng_i' = lng_i + 1
  /\ UNCHANGED << pc, args, lat, lng, lat_step, lng_step, qd_end, t, qt, ti,
                  lat_i, hist >>

\* The second loop starting on the corner row.
ColsStartAtCorner == Spread

\* let lat_i = spread_out - 1
ColsStart == Spread - 1

\* The first inner loop's exit; the second starts.
RowsExit ==
  /\ pc = "rows" /\ lng_i > Spread
  /\ lat_i' = ColsStart
  /\ pc' = "cols"
  /\ UNCHANGED << args, lat, lng, lat_step, lng_step, qd_end, t, qt, ti,
                  lng_i, ret, pts, hist >>

\* The second loop running down to the corner row.
ColsEndAtCorner == -Spread

\* lat_i >= -spread_out + 1
ColsEnd == -Spread + 1

\* Empty square, left and right lines: one iteration.
ColPush ==
  /\ pc = "cols" /\ lat_i >= ColsEnd
  /\ Pushed(ColPoints)
  /\ lat_i' = lat_i - 1
  /\ UNCHANGED << pc, args, lat, lng, lat_step, lng_step, qd_end, t, qt, ti,
                  lng_i, hist >>

\* The second inner loop's exit: on to the next timestamp.
ColsExit ==
  /\ pc = "cols" /\ lat_i < ColsEnd
  /\ ti' = ti + 1
  /\ pc' = "ts_loop"
  /\ UNCHANGED << args, lat, lng, lat_step, lng_step, qd_end, t, qt,
                  lng_i, lat_i, ret, pts, hist >>

\* The caller takes the returned array and the call's locals are gone; the
\* first call's arguments and result are remembered.
Return ==
  /\ pc = "returned"
  /\ hist' = IF hist = << >>
               THEN << [args |-> args, qt |-> qt, ret |-> ret] >>
               ELSE hist
  /\ pc' = "idle"
  /\ args' = NoArgs
  /\ lat' = 0 /\ lng' = 0 /\ lat_step' = 0 /\ lng_step' = 0
  /\ qd_end' = Num(0) /\ t' = Num(0) /\ qt' = << >>
  /\ ti' = 1 /\ lng_i' = 0 /\ lat_i' = 0
  /\ ret' = << >> /\ pts' = << >>

Loops ==
  \/ QDPush \/ QDReturn \/ TsEnter \/ TsExit
  \/ RowPush \/ RowsExit \/ ColPush \/ ColsExit

\* Callers hash valid records, one call after the other.
Next == Call(ValidArgs) \/ Loops \/ Return

Spec == Init /\ [][Next]_vars

\* One call with arguments of any kind, run to its end.
NextOne == Call(AnyArgs) \/ Loops \/ QDOverflow

SpecOne == Init /\ [][NextOne]_vars
(***************************************************************************)
(* What the claims speak of.                                               *)
(***************************************************************************)

Range(f) == { f[i] : i \in 1..Len(f) }

\* The arguments the specification admits.
ValidInput(a) ==
  /\ a.time_step_in_mins > 0
  /\ a.spread_out >= 0
  /\ a.begin <= a.end
  /\ a.key # ""

\* The call has run quantifyDuration to its return.
DurationDone == pc \in {"ts_loop", "rows", "cols", "returned"}

\* The grid point i cells of latitude and j cells of longitude off the
\* centre (la, ln), for a cell size st.
Grid(la, ln, st, i, j) ==
  [lat |-> FAdd(la, FMul(i, st)), lng |-> FAdd(ln, FMul(j, st))]

\* Points per timestamp: 8 * spread_out, and 2 for spread_out = 0.
PerimeterSize(s) == IF s = 0 THEN 2 ELSE 8 * s

\* The k-th point of the fixed enumeration order: for lng_i = -s .. s the
\* lat - s point then the lat + s point; then for lat_i = s-1 down to
\* -(s-1) the lng - s point then the lng + s point.
PerimeterPoint(la, ln, st, s, k) ==
  LET rows == 2 * (2 * s + 1)
      side == IF k % 2 = 1 THEN -s ELSE s
  IN  IF k <= rows
        THEN Grid(la, ln, st, side, -s + (k - 1) \div 2)
        ELSE Grid(la, ln, st, s - 1 - (k - rows - 1) \div 2, side)

Perimeter(la, ln, st, s) ==
  [k \in 1..PerimeterSize(s) |-> PerimeterPoint(la, ln, st, s, k)]

\* The grid points on the boundary of the square: max(|i|, |j|) = s.
Boundary(la, ln, st, s) ==
  { Grid(la, ln, st, i, j) : i \in -s..s, j \in -s..s } \
  { Grid(la, ln, st, i, j) : i \in (1 - s)..(s - 1), j \in (1 - s)..(s - 1) }

\* The points of the running call's i-th timestamp, as handed to hmac.
Block(i) ==
  [k \in 1..PerimeterSize(Spread) |->
     [lat |-> pts[(i - 1) * PerimeterSize(Spread) + k].lat,
      lng |-> pts[(i - 1) * PerimeterSize(Spread) + k].lng]]

\* The first completed call, its quantized centre and its perimeter.
First == hist[1]
FirstQ ==
  QuantifyLatLng(First.args.lat, First.args.lng, First.args.latlng_precision)
FirstPerimeter ==
  Range(Perimeter(FirstQ[1], FirstQ[2], FirstQ[3], First.args.spread_out))
ThisPerimeter == Range(Perimeter(lat, lng, lat_step, Spread))

\* The running call has returned and is compared with the first one, made
\* under the same key and configuration.
SameConfig ==
  /\ pc = "returned" /\ hist # << >>
  /\ First.args.key = args.key
  /\ First.args.time_step_in_mins = args.time_step_in_mins
  /\ First.args.latlng_precision = args.latlng_precision
  /\ First.args.spread_out = args.spread_out

CommonTimestamp == Range(First.qt) \cap Range(qt) # {}
SharedToken == Range(First.ret) \cap Range(ret) # {}

\* The index of the grid cell of a coordinate: its decimal text cut at the
\* 10^p position, counted in cells.
CellOf(x, p) ==
  LET s == ShuffleFloat(x, p)
      n == IF s.k + p >= 0 THEN s.d \div Pow(10, s.k + p)
                           ELSE s.d * Pow(10, -(s.k + p))
  IN  IF s.neg THEN -n ELSE n

\* The two centres are one grid cell apart, in latitude, longitude or both.
AdjacentCells ==
  LET p  == args.latlng_precision
      di == Abs(CellOf(args.lat, p) - CellOf(First.args.lat, p))
      dj == Abs(CellOf(args.lng, p) - CellOf(First.args.lng, p))
  IN  di <= 1 /\ dj <= 1 /\ di + dj >= 1

(***************************************************************************)
(* The claims.                                                             *)
(***************************************************************************)

\* C1: for begin <= end and time_step_minutes > 0, quantifyDuration returns
\* a non-empty sequence whose consecutive elements differ by exactly
\* step = time_step_minutes * 60, whose first element is the largest multiple
\* of step <= begin and whose last element is the smallest multiple of step
\* >= end; quantifyDuration(123, 601, 10) = [0, 600, 1200].
C1_QuantifyDuration ==
  (args.begin <= args.end /\ args.time_step_in_mins > 0) =>
    /\ pc # "crashed"
    /\ DurationDone =>
         /\ Len(qt) >= 1
         /\ \A i \in 1..(Len(qt) - 1) : qt[i + 1] - qt[i] = Step
         /\ qt[1] % Step = 0 /\ qt[1] <= args.begin /\ args.begin < qt[1] + Step
         /\ qt[Len(qt)] % Step = 0 /\ qt[Len(qt)] >= args.end
         /\ args.end > qt[Len(qt)] - Step
         /\ (args.begin = 123 /\ args.end = 601 /\ Step = 600)
              => qt = << 0, 600, 1200 >>

C1_Witness ==
  /\ pc = "returned"
  /\ args.begin = 123 /\ args.end = 601 /\ args.time_step_in_mins = 10
  /\ qt = << 0, 600, 1200 >>

\* C2: for one timestamp the perimeter enumeration emits exactly
\* 8 * spread_out points for spread_out >= 1, and exactly 2 points, both the
\* quantized centre, for spread_out = 0.
C2_PerimeterCount ==
  /\ pc \in {"ts_loop", "returned"} =>
       Len(pts) = (ti - 1) * (IF Spread = 0 THEN 2 ELSE 8 * Spread)
  /\ pc = "rows" =>
       Len(pts) = (ti - 1) * (IF Spread = 0 THEN 2 ELSE 8 * Spread)
                    + 2 * (lng_i + Spread)
  /\ pc = "cols" =>
       Len(pts) = (ti - 1) * (IF Spread = 0 THEN 2 ELSE 8 * Spread)
                    + 2 * (2 * Spread + 1) + 2 * (Spread - 1 - lat_i)
  /\ (pc = "returned" /\ Spread = 0) =>
       /\ Len(ret) = 2 * Len(qt)
       /\ \A i \in 1..Len(pts) : pts[i].lat = lat /\ pts[i].lng = lng
       /\ \A i \in 1..Len(qt) : ret[2 * i - 1] = ret[2 * i]

C2_Witness ==
  /\ pc = "returned" /\ hist # << >>
  /\ Spread = 2 /\ Len(qt) = 2 /\ Len(ret) = 32
  /\ First.args.spread_out = 0 /\ Len(First.qt) = 2 /\ Len(First.ret) = 2 * 2

\* C3: the output of hashSpacetime is timestamp-major: the concatenation,
\* over the quantized timestamps in ascending order, of the tokens of the
\* perimeter points in the fixed enumeration order; its length is
\* |QuantizedTime| * |Perimeter| and the k-th token of block i is the hash of
\* (t_i, perimeter point k).
C3_TimestampMajor ==
  pc = "returned" =>
    LET P == Perimeter(lat, lng, lat_step, Spread)
        N == Len(P)
    IN  /\ \A i \in 1..(Len(qt) - 1) : qt[i] < qt[i + 1]
        /\ Len(ret) = Len(qt) * N
        /\ \A i \in 1..Len(qt) : \A k \in 1..N :
             ret[(i - 1) * N + k] = HMAC(args.key, qt[i], P[k].lat, P[k].lng)

C3_Witness ==
  /\ pc = "returned" /\ Spread = 2 /\ Len(qt) = 2 /\ Len(ret) = 32
  /\ ret[27] = HMAC(args.key, qt[2], FAdd(lat, lat_step),
                    FSub(lng, FMul(2, lng_step)))
  /\ ret[16 + 9] # ret[9]

\* C4: a call whose input is invalid (time_step_minutes <= 0, spread_out < 0,
\* begin > end, an empty key) ends in an error raised before any token is
\* hashed: it never returns a token sequence, not even an empty one.
C4_InvalidRejected ==
  (pc # "idle" /\ ~ValidInput(args)) => (pc # "returned" /\ ret = << >>)

\* C5: every call terminates, for every input: it ends by returning a result
\* or with an input-validation error, and the loop
\* for (t = begin; t <= end; t += step) reaches its exit also when
\* time_step_minutes is zero or negative. So no call ends because the loop
\* pushed until the array could not grow.
C5_Terminates == pc # "crashed"

C7_Deterministic ==
  (pc = "returned" /\ hist # << >> /\ First.args = args) => ret = First.ret

C7_Witness ==
  /\ pc = "returned" /\ hist # << >> /\ First.args = args
  /\ Spread = 1 /\ Len(ret) = 16 /\ ret = First.ret

\* C8: coordinate quantization is idempotent: if (q_lat, q_lng, s, s) =
\* quantifyLatLng(lat, lng, p) then quantifyLatLng(q_lat, q_lng, p) =
\* (q_lat, q_lng, s, s), where s = 10^p and q_lat, q_lng are lat, lng
\* truncated (towards zero, not rounded) at the digit position given by p.
Truncated(raw, q, p) ==
  LET r == ToDecimal(raw)
      c == ToDecimal(q)
      K == IF r.k >= c.k THEN (IF r.k >= -p THEN r.k ELSE -p)
                         ELSE (IF c.k >= -p THEN c.k ELSE -p)
      R == r.d * Pow(10, K - r.k)
      Q == c.d * Pow(10, K - c.k)
      S == Pow(10, K + p)
  IN  /\ Q % S = 0 /\ Q <= R /\ R - Q < S
      /\ (Q # 0 => c.neg = r.neg)

C8_QuantizeIdempotent ==
  pc # "idle" =>
    /\ QuantifyLatLng(lat, lng, args.latlng_precision)
         = << lat, lng, lat_step, lng_step >>
    /\ lat_step = TenToThe(args.latlng_precision) /\ lng_step = lat_step
    /\ Truncated(args.lat, lat, args.latlng_precision)
    /\ Truncated(args.lng, lng, args.latlng_precision)

C8_Witness ==
  /\ pc = "returned" /\ args.latlng_precision = -1
  /\ args.lat = NegCoord(25, 2) /\ lat = NegCoord(2, 1)
  /\ args.lng = NegCoord(147, 2) /\ lng = NegCoord(14, 1)
  /\ QuantifyLatLng(lat, lng, -1) = << lat, lng, lat_step, lng_step >>

\* C9: for every spread_out >= 1, two records hashed under the same key and
\* configuration whose quantized centres differ by exactly one grid cell (in
\* latitude, in longitude, or in both) and which have a common quantized
\* timestamp have a perimeter point in common and share a token.
C9_AdjacentCellsMatch ==
  (SameConfig /\ Spread >= 1 /\ CommonTimestamp /\ AdjacentCells)
  => (FirstPerimeter \cap ThisPerimeter # {} /\ SharedToken)

\* C10: for every spread_out >= 1 the points enumerated for one timestamp
\* are pairwise distinct and are exactly the grid points
\* (q_lat + i * lat_step, q_lng + j * lng_step) with max(|i|, |j|) =
\* spread_out: no corner is emitted twice, and neither the centre nor an
\* interior point is emitted.
C10_PerimeterIsBoundary ==
  (pc = "returned" /\ Spread >= 1) =>
    \A b \in 1..Len(qt) :
      /\ \A k \in 1..(8 * Spread) : \A l \in 1..(8 * Spread) :
           k # l => Block(b)[k] # Block(b)[l]
      /\ Range(Block(b)) = Boundary(lat, lng, lat_step, Spread)
      /\ \A i \in (1 - Spread)..(Spread - 1) :
           \A j \in (1 - Spread)..(Spread - 1) :
             Grid(lat, lng, lat_step, i, j) \notin Range(Block(b))
      /\ Cardinality(Boundary(lat, lng, lat_step, Spread)) = 8 * Spread

C10_Witness ==
  /\ pc = "returned" /\ Spread = 2 /\ Len(pts) = 32
  /\ Cardinality(Range(Block(2))) = 16
  /\ Grid(lat, lng, lat_step, -2, 2) \in Range(Block(2))
  /\ Grid(lat, lng, lat_step, 1, -2) \in Range(Block(2))
====
